---- MODULE Spec2Model ----
(***************************************************************************)
(* The eval-server: POST /eval handler, admission queue (add / process),   *)
(* isolate runner (eval) and the guest fetch bridge (fetchImplement).      *)
(* The repository holds two variants of the server, src/index.ts and       *)
(* src/unnamed/part_000; the variable `variant` says which one is running. *)
(***************************************************************************)
EXTENDS Integers, Sequences, FiniteSets, TLC

\* `if (this.queue.length > 20)` in add()
QueueLimit == 20

\* bounds of the model
MaxRequests == 3       \* POST /eval requests in a behaviour of Spec
MaxBurst == 23         \* POST /eval requests in a behaviour of SpecBurst
MaxBurstFaults == 1    \* evaluations of SpecBurst that do not end by Completed
MaxCounterRequests == 2 \* POST /eval requests in a behaviour of SpecCounter
MaxFetches == 2        \* guest fetch() calls in a behaviour of SpecCounter
MaxBridgeFetches == 1  \* guest fetch() calls in a behaviour of SpecBridge
MaxFetchConcurrency == 1   \* config.maxFetchConcurrency of the model's config.json
MaxSecretLen == 2      \* bytes of a short config.auth in SpecAuth
MaxTokenLen == 6       \* bytes of a bearer token in SpecAuth
MaxCodeLen == 2        \* pieces of a snippet's code in SpecRunner

Variants == {"index.ts", "part_000"}

\* how an evaluation can end
GuestFailures == {"GuestThrew", "SyntaxError", "Timeout"}
ChainOutcomes == {"Completed", "HostError"} \cup GuestFailures

VARIABLES
  variant,             \* which source file is running
  arrived,             \* number of authenticated POST /eval requests so far
  queue,               \* this.queue: the Waiters, by request id
  processing,          \* this.processing
  concurrencyCounter,  \* this.concurrencyCounter
  current,             \* request whose eval() the consumer awaits, 0 if none
  addState,            \* per request: state of the promise returned by add()
  evalState,           \* per request: state of the promise returned by eval()
  evalResult,          \* per request: value eval() resolved with
  outcome,             \* per request: how the isolate chain / isolate ended
  isolate,             \* per request: lifecycle of its Isolate
  disposeCalls,        \* per request: number of isolate.dispose() calls
  responses,           \* per request: the res.status(..).send(..) calls made
  rejectedByAdd,       \* requests for which add() called reject("Queue is full")
  evalOrder,           \* request ids in the order eval() was called
  settleOrder,         \* request ids in the order process() settled waiters
  faults,              \* evaluations that did not end by Completed so far
  fetches,             \* the fetchImplement invocations, in call order
  uncaught,            \* exceptions thrown out of a host callback, uncaught
  secret,              \* this.config.auth, as bytes
  auth,                \* the request at authenticate(): header and status sent
  probe                \* the last shaping / truncation done by eval()

vars == <<variant, arrived, queue, processing, concurrencyCounter, current,
          addState, evalState, evalResult, outcome, isolate, disposeCalls,
          responses, rejectedByAdd, evalOrder, settleOrder, faults,
          fetches, uncaught, secret, auth, probe>>

\* the variables of the request gate and of the script preparation
gate == <<secret, auth, probe>>

\* An uncaught exception ends the node process.
Running == uncaught = 0

Ids == 1..arrived

----------------------------------------------------------------------------
\* A promise is settled once: resolve/reject on a settled promise is a no-op.
Settle(old, new) == IF old = "pending" THEN new ELSE old

\* `.catch((e) => '🚫 ' + e.constructor.name + ': ' + e.message)` on the chain:
\* what the chain of eval() yields for each way the evaluation can end.
ChainResult(o) == IF o = "Completed" THEN "value" ELSE "sentinel"

\* The route handler's continuation after `await this.add(...)` settles.
\* part_000 : try { 200 } catch { 500 }
\* index.ts : .catch sends 500 and yields undefined, then the 200 send follows.
Handler(v, settled, result) ==
  IF settled = "resolved"
    THEN << [status |-> 200, data |-> result] >>
    ELSE IF v = "part_000"
      THEN << [status |-> 500, data |-> "none"] >>
      ELSE << [status |-> 500, data |-> "none"],
              [status |-> 200, data |-> "undefined"] >>

\* add(): `if (this.queue.length > 20) reject("Queue is full")`
QueueIsFull(q) == Len(q) > QueueLimit

\* add(): `this.queue.push({ code, msg, resolve, reject })`, executed after the
\* test above on both of its branches (the rejecting `if` has no return).
Push(q, id, full) == Append(q, id)

\* process(): `const next = this.queue.shift()`
DequeueLast(q) == [next |-> q[Len(q)], rest |-> SubSeq(q, 1, Len(q) - 1)]
Dequeue(q) == [next |-> Head(q), rest |-> Tail(q)]

\* onCatastrophicError: (e) => { reject(e) }  -- settles eval()'s promise
CatastrophicAsSentinel == [state |-> "resolved", result |-> "sentinel"]
OnCatastrophicError == [state |-> "rejected", result |-> "none"]

----------------------------------------------------------------------------
NoAuth == [state |-> "none", header |-> << >>, status |-> 0]
NoProbe == [fn |-> "none", code |-> << >>, path |-> "none", len |-> 0, out |-> 0]

\* the state after construction, but for the secret of config.json and the
\* request at the gate
InitState ==
  /\ variant \in Variants
  /\ arrived = 0
  /\ queue = << >>
  /\ processing = FALSE
  /\ concurrencyCounter = 0
  /\ current = 0
  /\ addState = << >>
  /\ evalState = << >>
  /\ evalResult = << >>
  /\ outcome = << >>
  /\ isolate = << >>
  /\ disposeCalls = << >>
  /\ responses = << >>
  /\ rejectedByAdd = {}
  /\ evalOrder = << >>
  /\ settleOrder = << >>
  /\ faults = 0
  /\ fetches = << >>
  /\ uncaught = 0
  /\ probe = NoProbe

Init ==
  /\ InitState
  /\ secret = << "a", "b" >>
  /\ auth = NoAuth

\* process(), from the loop test on: with a waiter queued, shift it and call
\* eval(), which constructs the Isolate before its first await; otherwise
\* processing := false.  Given the queue q and the per-request maps, yields
\* the new consumer state.
ProcessLoopNeverIdle(q, iso, es) ==
  IF Len(q) > 0
    THEN LET d == Dequeue(q) IN
         [queue |-> d.rest, processing |-> TRUE, current |-> d.next,
          isolate |-> [iso EXCEPT ![d.next] = "Created"],
          evalState |-> [es EXCEPT ![d.next] = "pending"],
          started |-> << d.next >>]
    ELSE [queue |-> q, processing |-> TRUE, current |-> 0,
          isolate |-> iso, evalState |-> es, started |-> << >>]
ProcessLoop(q, iso, es) ==
  IF Len(q) > 0
    THEN LET d == Dequeue(q) IN
         [queue |-> d.rest, processing |-> TRUE, current |-> d.next,
          isolate |-> [iso EXCEPT ![d.next] = "Created"],
          evalState |-> [es EXCEPT ![d.next] = "pending"],
          started |-> << d.next >>]
    ELSE [queue |-> q, processing |-> FALSE, current |-> 0,
          isolate |-> iso, evalState |-> es, started |-> << >>]

\* POST /eval handler up to its await: add() and, through it, process().
AddReqBody(limit) ==
  /\ Running
  /\ arrived < limit
  /\ LET id == arrived + 1
         full == QueueIsFull(queue)
         q1 == Push(queue, id, full)
         as1 == Append(addState, IF full THEN "rejected" ELSE "pending")
         iso1 == Append(isolate, "none")
         es1 == Append(evalState, "none")
         p == IF processing
                THEN [queue |-> q1, processing |-> TRUE, current |-> current,
                      isolate |-> iso1, evalState |-> es1, started |-> << >>]
                ELSE ProcessLoop(q1, iso1, es1)
     IN /\ arrived' = id
        /\ rejectedByAdd' = IF full THEN rejectedByAdd \cup {id} ELSE rejectedByAdd
        /\ addState' = as1
        /\ responses' = Append(responses,
                           IF full THEN Handler(variant, "rejected", "none") ELSE << >>)
        /\ evalResult' = Append(evalResult, "none")
        /\ outcome' = Append(outcome, "none")
        /\ disposeCalls' = Append(disposeCalls, 0)
        /\ queue' = p.queue
        /\ processing' = p.processing
        /\ current' = p.current
        /\ isolate' = p.isolate
        /\ evalState' = p.evalState
        /\ evalOrder' = evalOrder \o p.started
  /\ UNCHANGED <<variant, concurrencyCounter, settleOrder, faults, fetches, uncaught>>

\* a request that passed authenticate()
AddReq(limit) == AddReqBody(limit) /\ UNCHANGED gate

\* eval(): createContext() and the set-up of the context have resolved and
\* context.eval(code, { timeout: 5000, promise: true }) has been called.
ContextReady ==
  /\ Running
  /\ current # 0
  /\ isolate[current] = "Created"
  /\ evalState[current] = "pending"
  /\ isolate' = [isolate EXCEPT ![current] = "GuestRunning"]
  /\ UNCHANGED <<variant, arrived, queue, processing, concurrencyCounter, current,
                 addState, evalState, evalResult, outcome, disposeCalls,
                 responses, rejectedByAdd, evalOrder, settleOrder, faults,
                 fetches, uncaught>>
  /\ UNCHANGED gate

\* The consumer's step after eval() of `id` settled as `st` with `res`:
\* `.then(resolve).catch(reject)` settles the waiter, the handler answers,
\* and the while loop of process() goes on.
ConsumerResume(id, st, res, iso, es) ==
  LET as1 == [addState EXCEPT ![id] = Settle(@, st)]
      p == ProcessLoop(queue, iso, es)
  IN /\ addState' = as1
     /\ responses' = [responses EXCEPT ![id] =
                        IF addState[id] = "pending" THEN @ \o Handler(variant, st, res) ELSE @]
     /\ settleOrder' = Append(settleOrder, id)
     /\ queue' = p.queue
     /\ processing' = p.processing
     /\ current' = p.current
     /\ isolate' = p.isolate
     /\ evalState' = p.evalState
     /\ evalOrder' = evalOrder \o p.started

\* eval(): the chain createContext().then(..).catch(..).finally(dispose)
\* settles with outcome o, then `this.concurrencyCounter = 0` and resolve.
EvalSettle(o, faultLimit) ==
  /\ Running
  /\ current # 0
  /\ evalState[current] = "pending"
  /\ \/ isolate[current] = "Created" /\ o = "HostError"
     \/ isolate[current] = "GuestRunning" /\ o # "HostError"
  /\ o # "Completed" => faults < faultLimit
  /\ LET id == current IN
       /\ outcome' = [outcome EXCEPT ![id] = o]
       /\ evalResult' = [evalResult EXCEPT ![id] = ChainResult(o)]
       /\ disposeCalls' = [disposeCalls EXCEPT ![id] = @ + 1]
       /\ concurrencyCounter' = 0
       /\ faults' = IF o # "Completed" THEN faults + 1 ELSE faults
       /\ ConsumerResume(id, "resolved", ChainResult(o),
                         [isolate EXCEPT ![id] = "Disposed"],
                         [evalState EXCEPT ![id] = "resolved"])
  /\ UNCHANGED <<variant, arrived, rejectedByAdd, fetches, uncaught>>
  /\ UNCHANGED gate

\* part_000 only: the Isolate calls onCatastrophicError while the guest runs.
\* eval()'s promise is settled by the callback; the chain stays pending, so
\* neither its finally (dispose) nor the counter reset runs in this step.
Catastrophic ==
  /\ Running
  /\ variant = "part_000"
  /\ current # 0
  /\ evalState[current] = "pending"
  /\ isolate[current] = "GuestRunning"
  /\ LET id == current
         c == OnCatastrophicError
     IN /\ outcome' = [outcome EXCEPT ![id] = "Catastrophic"]
        /\ evalResult' = [evalResult EXCEPT ![id] = c.result]
        /\ ConsumerResume(id, c.state, c.result, isolate,
                          [evalState EXCEPT ![id] = c.state])
  /\ faults' = faults + 1
  /\ UNCHANGED <<variant, arrived, rejectedByAdd, concurrencyCounter, disposeCalls,
                 fetches, uncaught>>
  /\ UNCHANGED gate

\* The chain of an evaluation that ended by a catastrophic error settles
\* afterwards (it may as well never do): finally disposes the isolate, the
\* counter is reset, and resolve() finds eval()'s promise already settled.
LateChainSettle(id) ==
  /\ Running
  /\ id \in Ids
  /\ outcome[id] = "Catastrophic"
  /\ isolate[id] = "GuestRunning"
  /\ isolate' = [isolate EXCEPT ![id] = "Disposed"]
  /\ disposeCalls' = [disposeCalls EXCEPT ![id] = @ + 1]
  /\ concurrencyCounter' = 0
  /\ UNCHANGED <<variant, arrived, queue, processing, current, addState,
                 evalState, evalResult, outcome, responses, rejectedByAdd,
                 evalOrder, settleOrder, faults, fetches, uncaught>>
  /\ UNCHANGED gate

----------------------------------------------------------------------------
\* The fetch bridge.  A target is the host of the url the guest passes to
\* fetch(); URL.hostname keeps the brackets of an IPv6 literal.
BlockedTargets ==
  {"127.0.0.1", "10.0.0.1", "192.168.1.1", "169.254.169.254", "[::1]", "[fc00::1]"}
Targets ==
  BlockedTargets \cup {"93.184.216.34", "public.example", "mixed.example",
                       "nxdomain.invalid"}

\* ip.isV4Format / ip.isV6Format: the whole string is an address
IsV4Format(h) ==
  h \in {"127.0.0.1", "10.0.0.1", "192.168.1.1", "169.254.169.254",
         "93.184.216.34", "10.9.9.9"}
IsV6Format(h) == h \in {"::1", "fc00::1"}

\* ip.isPrivate
IsPrivate(a) ==
  a \in {"127.0.0.1", "10.0.0.1", "192.168.1.1", "169.254.169.254",
         "10.9.9.9", "::1", "fc00::1"}

\* the host the socket is opened to: the connector drops the brackets
SocketHost(h) ==
  IF h = "[::1]" THEN "::1" ELSE IF h = "[fc00::1]" THEN "fc00::1" ELSE h

\* net.isIP: the socket layer resolves names only
IsIP(h) == IsV4Format(h) \/ IsV6Format(h)

DnsOk(addrs) == [err |-> FALSE, addresses |-> addrs]
DnsErr == [err |-> TRUE, addresses |-> << >>]

\* dns.lookup(hostname, ..): the answers the callback can be handed
DnsAnswers(h) ==
  IF IsIP(h) THEN {DnsOk(<< h >>)}
  ELSE IF h = "public.example" THEN {DnsOk(<< "93.184.216.34" >>)}
  ELSE IF h = "mixed.example" THEN {DnsOk(<< "93.184.216.34", "10.9.9.9" >>)}
  ELSE IF h \in {"[::1]", "[fc00::1]"} THEN {DnsErr, DnsOk(<< SocketHost(h) >>)}
  ELSE {DnsErr}

\* the synthetic responses of fetchImplement
NoResult == [status |-> 0, body |-> << >>, synthetic |-> FALSE]
TooManyRequests ==
  [status |-> 429, body |-> << "Too many requests." >>, synthetic |-> TRUE]
RequestTimedOut ==
  [status |-> 408, body |-> << "Request timed out." >>, synthetic |-> TRUE]
\* `Request failed - ${e.constructor.name}: ${e.cause ?? e.message}`; fetch
\* rejects with a TypeError whose cause is the error of the dispatcher.
RequestFailed(v, cause) ==
  [status |-> 400,
   body |-> << IF v = "part_000" THEN "Request failed - " ELSE "Reqest failed - ",
               "TypeError", ": " >> \o cause,
   synthetic |-> TRUE]

\* throwIfPrivateIP / EvalDispatcher: new Error(`Access to ${i} is disallowed`)
AccessError(i) == << "Error: ", "Access to ", i, " is disallowed" >>
LookupError(h) == << "Error: ", "getaddrinfo ENOTFOUND ", h >>
ConnectError(a) == << "Error: ", "connect ECONNREFUSED ", a >>

\* dispatcherFactory (part_000): does the factory throw for this url host?
DispatcherFactoryThrows(h) ==
  (IsV4Format(h) \/ IsV6Format(h)) /\ IsPrivate(h)

\* the first private address of a DNS answer, "" if there is none
FirstPrivate(addrs) ==
  IF \E k \in 1..Len(addrs) : IsPrivate(addrs[k])
    THEN addrs[CHOOSE k \in 1..Len(addrs) :
                 /\ IsPrivate(addrs[k])
                 /\ \A j \in 1..(k - 1) : ~IsPrivate(addrs[j])]
    ELSE ""

FetchIds == 1..Len(fetches)

\* fetchImplement: `finally { this.concurrencyCounter-- }`
FinallySkipped(c) == c
Finally(c) == c - 1

\* fetchImplement's return (or catch) and its finally for invocation i
Return(i, res, why) ==
  /\ fetches' = [fetches EXCEPT ![i].state = "returned", ![i].result = res,
                                ![i].failure = why]
  /\ concurrencyCounter' = concurrencyCounter - 1

\* fetchImplement, from its entry to its first await: the counter test, and
\* the dispatch of the request by fetch() -- dispatcherFactory of the Agent
\* in part_000, EvalDispatcher.dispatch in index.ts.
FetchEnter(t, limit) ==
  /\ Running
  /\ current # 0
  /\ isolate[current] = "GuestRunning"
  /\ evalState[current] = "pending"
  /\ Len(fetches) < limit
  /\ LET c1 == concurrencyCounter + 1
         f0 == [owner |-> current, target |-> t, state |-> "pending",
                result |-> NoResult, failure |-> "none",
                lookup |-> "none", conn |-> "none", addr |-> ""]
     IN IF c1 > MaxFetchConcurrency
          THEN /\ fetches' = Append(fetches,
                       [f0 EXCEPT !.state = "returned", !.result = TooManyRequests,
                                  !.failure = "TooMany"])
               /\ concurrencyCounter' = Finally(c1)
          ELSE IF variant = "part_000"
            THEN IF DispatcherFactoryThrows(t)
                   THEN /\ fetches' = Append(fetches,
                                [f0 EXCEPT !.state = "returned",
                                           !.result = RequestFailed(variant, AccessError(t)),
                                           !.failure = "Blocked"])
                        /\ concurrencyCounter' = c1 - 1
                   ELSE /\ fetches' = Append(fetches,
                                IF IsIP(SocketHost(t))
                                  THEN [f0 EXCEPT !.conn = "pending", !.addr = SocketHost(t)]
                                  ELSE [f0 EXCEPT !.lookup = "pending"])
                        /\ concurrencyCounter' = c1
            ELSE /\ fetches' = Append(fetches,
                         [f0 EXCEPT !.lookup = "pending", !.conn = "pending"])
                 /\ concurrencyCounter' = c1
  /\ UNCHANGED <<variant, arrived, queue, processing, current, addState,
                 evalState, evalResult, outcome, isolate, disposeCalls,
                 responses, rejectedByAdd, evalOrder, settleOrder, faults, uncaught>>
  /\ UNCHANGED gate

\* The callback of dns.lookup runs with answer `ans`.
\* part_000, dnsLookup : cb(err), cb(e) for a private address, else cb(null, addr)
\* index.ts, dispatch  : handler.onError(err); throw err -- or onError for the
\*                       first private address -- or nothing
LookupCallback(i, ans) ==
  /\ Running
  /\ i \in FetchIds
  /\ fetches[i].lookup = "pending"
  /\ ans \in DnsAnswers(fetches[i].target)
  /\ LET f == fetches[i]
         bad == FirstPrivate(ans.addresses)
         cause == IF ans.err THEN LookupError(f.target) ELSE AccessError(bad)
         why == IF ans.err THEN "Dns" ELSE "Blocked"
     IN IF variant = "part_000"
          THEN /\ f.state = "pending"
               /\ IF ans.err \/ bad # ""
                    THEN /\ fetches' = [fetches EXCEPT ![i].state = "returned",
                                 ![i].result = RequestFailed(variant, cause),
                                 ![i].failure = why, ![i].lookup = "done"]
                         /\ concurrencyCounter' = concurrencyCounter - 1
                    ELSE /\ \E k \in 1..Len(ans.addresses) :
                              fetches' = [fetches EXCEPT ![i].lookup = "done",
                                   ![i].conn = "pending", ![i].addr = ans.addresses[k]]
                         /\ UNCHANGED concurrencyCounter
               /\ UNCHANGED uncaught
          ELSE /\ IF (ans.err \/ bad # "") /\ f.state = "pending"
                    THEN /\ fetches' = [fetches EXCEPT ![i].state = "returned",
                                 ![i].result = RequestFailed(variant, cause),
                                 ![i].failure = why, ![i].lookup = "done"]
                         /\ concurrencyCounter' = concurrencyCounter - 1
                    ELSE /\ fetches' = [fetches EXCEPT ![i].lookup = "done"]
                         /\ UNCHANGED concurrencyCounter
               /\ uncaught' = IF ans.err THEN uncaught + 1 ELSE uncaught
  /\ UNCHANGED <<variant, arrived, queue, processing, current, addState,
                 evalState, evalResult, outcome, isolate, disposeCalls,
                 responses, rejectedByAdd, evalOrder, settleOrder, faults>>
  /\ UNCHANGED gate

\* The connector of the underlying Pool / Client opens the socket, or fails.
\* In part_000 the address is the one dnsLookup let through (or the literal);
\* in index.ts the Client resolves the host by itself.
Connect(i, ans, refused) ==
  /\ Running
  /\ i \in FetchIds
  /\ fetches[i].conn = "pending"
  /\ LET f == fetches[i]
         own == variant = "index.ts" /\ ~IsIP(SocketHost(f.target))
     IN /\ ans \in (IF own THEN DnsAnswers(f.target) ELSE {DnsOk(<< >>)})
        /\ \E a \in (IF own THEN {ans.addresses[k] : k \in 1..Len(ans.addresses)}
                     ELSE IF variant = "index.ts" THEN {SocketHost(f.target)}
                     ELSE {f.addr}) \cup {""} :
             /\ (a = "") = ans.err
             /\ IF ans.err \/ refused
                  THEN IF f.state = "pending"
                         THEN /\ fetches' = [fetches EXCEPT ![i].state = "returned",
                                      ![i].result = RequestFailed(variant,
                                          IF ans.err THEN LookupError(f.target)
                                                     ELSE ConnectError(a)),
                                      ![i].failure = IF ans.err THEN "Dns" ELSE "Transport",
                                      ![i].conn = "failed"]
                              /\ concurrencyCounter' = concurrencyCounter - 1
                         ELSE /\ fetches' = [fetches EXCEPT ![i].conn = "failed"]
                              /\ UNCHANGED concurrencyCounter
                  ELSE /\ fetches' = [fetches EXCEPT ![i].conn = "open", ![i].addr = a]
                       /\ UNCHANGED concurrencyCounter
  /\ UNCHANGED <<variant, arrived, queue, processing, current, addState,
                 evalState, evalResult, outcome, isolate, disposeCalls,
                 responses, rejectedByAdd, evalOrder, settleOrder, faults, uncaught>>
  /\ UNCHANGED gate

\* The response arrived and its body was read: fetchImplement returns it.
FetchResponse(i) ==
  /\ Running
  /\ i \in FetchIds
  /\ fetches[i].state = "pending"
  /\ fetches[i].conn = "open"
  /\ Return(i, [status |-> 200, body |-> << "upstream body" >>, synthetic |-> FALSE],
            "none")
  /\ UNCHANGED <<variant, arrived, queue, processing, current, addState,
                 evalState, evalResult, outcome, isolate, disposeCalls,
                 responses, rejectedByAdd, evalOrder, settleOrder, faults, uncaught>>
  /\ UNCHANGED gate

\* The 5000 ms timer of timeout() aborts the signal: fetch rejects with a
\* DOMException and the request is torn down.  A dns.lookup started by
\* EvalDispatcher.dispatch is not tied to the signal.
FetchTimeout(i) ==
  /\ Running
  /\ i \in FetchIds
  /\ fetches[i].state = "pending"
  /\ fetches' = [fetches EXCEPT ![i].state = "returned",
                   ![i].result = RequestTimedOut, ![i].failure = "Timeout",
                   ![i].conn = IF @ = "none" THEN "none" ELSE "closed",
                   ![i].lookup = IF variant = "part_000" /\ @ = "pending"
                                   THEN "done" ELSE @]
  /\ concurrencyCounter' = concurrencyCounter - 1
  /\ UNCHANGED <<variant, arrived, queue, processing, current, addState,
                 evalState, evalResult, outcome, isolate, disposeCalls,
                 responses, rejectedByAdd, evalOrder, settleOrder, faults, uncaught>>
  /\ UNCHANGED gate

\* ---- strings ----
\* A string is a sequence of characters; inputs are put together from the
\* pieces below.
Chars(piece) ==
  CASE piece = "Bearer " -> << "B", "e", "a", "r", "e", "r", " " >>
    [] piece = "return" -> << "r", "e", "t", "u", "r", "n" >>
    [] piece = "await" -> << "a", "w", "a", "i", "t" >>
    [] piece = "ret" -> << "r", "e", "t" >>
    [] piece = "urn" -> << "u", "r", "n" >>
    [] piece = "aw" -> << "a", "w" >>
    [] piece = "ait" -> << "a", "i", "t" >>
    [] piece = "1+1" -> << "1", "+", "1" >>
    [] OTHER -> << piece >>

RECURSIVE Flatten(_)
Flatten(pieces) ==
  IF pieces = << >> THEN << >> ELSE Chars(Head(pieces)) \o Flatten(Tail(pieces))

\* the offsets at which word occurs in text
Occurrences(word, text) ==
  {k \in 0..(Len(text) - Len(word)) : SubSeq(text, k + 1, k + Len(word)) = word}

Min(S) == CHOOSE x \in S : \A y \in S : x <= y

\* String.prototype.replace(word, ""): the first occurrence only
ReplaceFirst(text, word) ==
  IF Occurrences(word, text) = {} THEN text
  ELSE LET k == Min(Occurrences(word, text))
       IN SubSeq(text, 1, k) \o SubSeq(text, k + Len(word) + 1, Len(text))

\* ---- authenticate ----
BufferSize == 5
Nul == "NUL"

\* Buffer.alloc(size, fill) of a string: the buffer is filled by repeating
\* fill; an empty or undefined fill leaves it zeroed.
BufferAllocZeroPadded(size, fill) ==
  [i \in 1..size |-> IF i <= Len(fill) THEN fill[i] ELSE Nul]
BufferAlloc(size, fill) ==
  [i \in 1..size |-> IF fill = << >> THEN Nul ELSE fill[((i - 1) % Len(fill)) + 1]]

\* a request without an Authorization header
NoHeader == << "absent" >>

\* req.headers.authorization?.replace("Bearer ", ""); undefined fills as ""
Provided(h) ==
  IF h = NoHeader THEN << >> ELSE ReplaceFirst(Flatten(h), Chars("Bearer "))

TimingSafeEqual(a, b) == a = b

AuthBytes == {"a", "b"}
Strings(n) == UNION {[1..k -> AuthBytes] : k \in 0..n}
HeaderPrefixes == {<< >>, << "Bearer " >>, << "a", "Bearer " >>}
Headers == {NoHeader} \cup {pre \o t : pre \in HeaderPrefixes, t \in Strings(MaxTokenLen)}
LongSecrets == {<< "a", "b", "a", "b", "a", "a" >>, << "a", "b", "a", "b", "a", "b" >>}
Secrets == Strings(MaxSecretLen) \cup LongSecrets

\* authenticate(), and on next() the POST /eval handler up to its await
Authenticate ==
  /\ Running
  /\ auth.state = "arrived"
  /\ LET h == auth.header
         posessed == BufferAlloc(BufferSize, secret)
         provided == BufferAlloc(BufferSize, Provided(h))
     IN IF ~TimingSafeEqual(posessed, provided)
          THEN /\ auth' = [state |-> "refused", header |-> h, status |-> 418]
               /\ UNCHANGED <<variant, arrived, queue, processing,
                              concurrencyCounter, current, addState, evalState,
                              evalResult, outcome, isolate, disposeCalls,
                              responses, rejectedByAdd, evalOrder, settleOrder,
                              faults, fetches, uncaught>>
          ELSE /\ auth' = [state |-> "passed", header |-> h, status |-> 0]
               /\ AddReqBody(arrived + 1)
  /\ UNCHANGED <<secret, probe>>

\* ---- the script preparation and the result of eval() ----
CodePieces == {"return", "await", "ret", "urn", "aw", "ait", "1+1"}
Codes == UNION {[1..k -> CodePieces] : k \in 0..MaxCodeLen}

\* /return|await/.test(code)
ReturnOnly(text) == Occurrences(Chars("return"), text) # {}
ReturnOrAwait(text) ==
  \/ Occurrences(Chars("return"), text) # {}
  \/ Occurrences(Chars("await"), text) # {}

\* the branch of the shaping taken for code
Shape(code) ==
  /\ Running
  /\ probe' = [fn |-> "shape", code |-> code,
               path |-> IF ReturnOrAwait(Flatten(code)) THEN "async" ELSE "eval",
               len |-> 0, out |-> 0]
  /\ UNCHANGED <<variant, arrived, queue, processing, concurrencyCounter,
                 current, addState, evalState, evalResult, outcome, isolate,
                 disposeCalls, responses, rejectedByAdd, evalOrder, settleOrder,
                 faults, fetches, uncaught, secret, auth>>

ResultLimit(v) == IF v = "part_000" THEN 3000 ELSE 10000

\* the length of s.slice(0, end) for a string of len characters
Slice(len, end) == IF len < end THEN len ELSE end

ResultLengths == {0, 1, 2999, 3000, 3001, 9999, 10000, 10001}

\* (result ?? null)?.slice(0, limit) on a guest result of len characters
Truncate(len) ==
  /\ Running
  /\ probe' = [fn |-> "slice", code |-> << >>, path |-> "none",
               len |-> len, out |-> Slice(len, ResultLimit(variant))]
  /\ UNCHANGED <<variant, arrived, queue, processing, concurrencyCounter,
                 current, addState, evalState, evalResult, outcome, isolate,
                 disposeCalls, responses, rejectedByAdd, evalOrder, settleOrder,
                 faults, fetches, uncaught, secret, auth>>

\* The admission queue and the isolate runner; the snippets make no
\* outbound request.
Next ==
  \/ AddReq(MaxRequests)
  \/ ContextReady
  \/ \E o \in ChainOutcomes : EvalSettle(o, MaxRequests)
  \/ Catastrophic
  \/ \E id \in Ids : LateChainSettle(id)

Spec == Init /\ [][Next]_vars

\* Every evaluation terminates: the context gets ready or fails, and the
\* guest ends at the latest by the 5000 ms timeout of context.eval.  Nothing
\* makes the chain of an isolate settle after a catastrophic error.
Fairness ==
  /\ WF_vars(ContextReady)
  /\ WF_vars(\E o \in ChainOutcomes : EvalSettle(o, MaxRequests))

SpecFair == Init /\ [][Next]_vars /\ Fairness

\* Snippets that call fetch() on a public name: the counter of the bridge
\* across evaluations.
NextCounter ==
  \/ AddReq(MaxCounterRequests)
  \/ ContextReady
  \/ \E o \in {"Completed", "Timeout"} : EvalSettle(o, MaxCounterRequests)
  \/ FetchEnter("public.example", MaxFetches)
  \/ \E i \in FetchIds : \E ans \in DnsAnswers("public.example") : LookupCallback(i, ans)
  \/ \E i \in FetchIds : \E ans \in DnsAnswers("public.example") \cup {DnsOk(<< >>)} :
       Connect(i, ans, FALSE)
  \/ \E i \in FetchIds : FetchResponse(i)
  \/ \E i \in FetchIds : FetchTimeout(i)

SpecCounter == Init /\ [][NextCounter]_vars

\* A burst of requests whose snippets make no outbound request.
NextBurst ==
  \/ AddReq(MaxBurst)
  \/ ContextReady
  \/ \E o \in {"Completed", "GuestThrew"} : EvalSettle(o, MaxBurstFaults)

SpecBurst == Init /\ [][NextBurst]_vars

\* One snippet and the outbound requests it makes, to every kind of target.
AllAnswers == UNION {DnsAnswers(t) : t \in Targets} \cup {DnsOk(<< >>)}

NextBridge ==
  \/ AddReq(1)
  \/ ContextReady
  \/ \E o \in {"Completed", "Timeout"} : EvalSettle(o, 1)
  \/ \E t \in Targets : FetchEnter(t, MaxBridgeFetches)
  \/ \E i \in FetchIds : \E ans \in AllAnswers : LookupCallback(i, ans)
  \/ \E i \in FetchIds : \E ans \in AllAnswers : \E refused \in BOOLEAN :
       Connect(i, ans, refused)
  \/ \E i \in FetchIds : FetchResponse(i)
  \/ \E i \in FetchIds : FetchTimeout(i)

SpecBridge == Init /\ [][NextBridge]_vars

----------------------------------------------------------------------------
\* The gate in front of the route: a request with any header arrives at a
\* server configured with any secret.
InitAuth ==
  /\ InitState
  /\ secret \in Secrets
  /\ auth \in {[state |-> "arrived", header |-> h, status |-> 0] : h \in Headers}

NextAuth ==
  \/ Authenticate
  \/ ContextReady
  \/ EvalSettle("Completed", MaxRequests)

SpecAuth == InitAuth /\ [][NextAuth]_vars

\* The preparation of the script and the cut of its result.
NextRunner ==
  \/ \E code \in Codes : Shape(code)
  \/ \E len \in ResultLengths : Truncate(len)

SpecRunner == Init /\ [][NextRunner]_vars

Range(s) == {s[i] : i \in 1..Len(s)}
Increasing(s) == \A i, j \in 1..Len(s) : i < j => s[i] < s[j]
Live(id) == isolate[id] \in {"Created", "GuestRunning"}
Admitted == Ids \ rejectedByAdd

\* C1: at most one isolate that has been created and not yet disposed exists
\* at any moment, also when an evaluation ends by timeout or by a
\* catastrophic isolate error.
AtMostOneIsolate == Cardinality({id \in Ids : Live(id)}) <= 1

\* C2: the admission queue never holds more than 20 waiters.
QueueAtMostTwenty == Len(queue) <= QueueLimit

\* C3: a request that add() rejected with "Queue is full" has no Waiter in
\* the queue and its code is never passed to eval().
RejectedNeverQueued ==
  \A id \in rejectedByAdd :
    /\ id \notin Range(queue)
    /\ id \notin Range(evalOrder)

\* C4: admitted snippets are evaluated and their waiters settled in the order
\* add() appended them (request ids are the order of the pushes): when the
\* evaluation of B has started, every admitted A pushed before B has finished
\* its evaluation and has had its outcome delivered to its waiter.
FifoBetweenSnippets ==
  /\ Increasing(evalOrder)
  /\ Increasing(settleOrder)
  /\ \A b \in Range(evalOrder) \cap Admitted : \A a \in Admitted :
       a < b => /\ a \in Range(settleOrder)
                /\ evalState[a] \in {"resolved", "rejected"}
                /\ addState[a] \in {"resolved", "rejected"}

FifoWitness ==
  \E a, b \in Admitted :
    /\ a < b
    /\ a \in Range(settleOrder)
    /\ b \in Range(evalOrder)
    /\ Len(queue) > 0

\* C5: every request whose add() promise has settled got exactly one
\* response, and no request ever gets more than one (never a 500 and a 200).
ExactlyOneResponse ==
  \A id \in Ids :
    /\ Len(responses[id]) <= 1
    /\ addState[id] # "pending" => Len(responses[id]) = 1

\* C6: an evaluation that ended by a guest failure (throw, syntax error,
\* timeout) resolves eval() with the sentinel string and its request is
\* answered with status 200 carrying the sentinel.
GuestFailureAnswered200 ==
  \A id \in Ids :
    outcome[id] \in GuestFailures =>
      /\ evalState[id] = "resolved"
      /\ evalResult[id] = "sentinel"
      /\ responses[id] = << [status |-> 200, data |-> "sentinel"] >>

Contains(body, word) == \E k \in 1..Len(body) : body[k] = word

\* C8: every failure inside the fetch bridge comes back to the guest as a
\* synthetic response with status 400, 408 or 429, and no failure of an
\* outbound request (a DNS lookup error included) escapes as an uncaught
\* host exception.
FetchFailuresStayInBridge ==
  /\ uncaught = 0
  /\ \A i \in FetchIds :
       fetches[i].failure # "none" =>
         /\ fetches[i].state = "returned"
         /\ fetches[i].result.synthetic
         /\ fetches[i].result.status \in {400, 408, 429}

\* C9: a fetch of a blocked literal target returns status 400 with a body
\* containing "BlockedAddress", and no connection to it is ever attempted
\* (stated for the variant that has dispatcherFactory / throwIfPrivateIP).
BlockedLiteralRefused ==
  \A i \in FetchIds :
    variant = "part_000" /\ fetches[i].target \in BlockedTargets =>
      /\ fetches[i].conn = "none"
      /\ fetches[i].state = "returned" =>
           /\ fetches[i].result.status = 400
           /\ Contains(fetches[i].result.body, "BlockedAddress")

\* C10: for a DNS name whose answer holds a private address the outbound
\* request fails and is never handed to a connection: dispatch waits for the
\* outcome of the address check.
ResolvesToPrivate(t) ==
  /\ ~IsIP(SocketHost(t))
  /\ \E ans \in DnsAnswers(t) : FirstPrivate(ans.addresses) # ""

PrivateNameNeverDispatched ==
  \A i \in FetchIds :
    ResolvesToPrivate(fetches[i].target) =>
      /\ fetches[i].conn = "none"
      /\ fetches[i].state = "returned" => fetches[i].result.synthetic

\* C13: concurrencyCounter is never negative.
CounterNeverNegative == concurrencyCounter >= 0

\* the outbound requests really in flight: fetchImplement invocations that
\* passed the counter test and have not returned
InFlight == {i \in FetchIds : fetches[i].state = "pending"}

\* C14: the number of outbound requests in flight in the process never
\* exceeds max_fetch_concurrency.
InFlightWithinLimit == Cardinality(InFlight) <= MaxFetchConcurrency

\* C15: when an evaluation has ended, no fetchImplement invocation started
\* by it is still pending (so requests of two snippets are never in flight
\* together and the counter is 0 when eval() resets it).
NoFetchOutlivesEvaluation ==
  \A i \in InFlight : evalState[fetches[i].owner] = "pending"

\* C16: when a response for a request has been sent, isolate.dispose() has
\* been called exactly once on that request's isolate.
DisposedOnceBeforeResponse ==
  \A id \in Ids : Len(responses[id]) > 0 => disposeCalls[id] = 1

\* C19: a fetchImplement call entered with the incremented counter above
\* max_fetch_concurrency returns {body: "Too many requests.", status: 429},
\* issues no outbound request (no lookup, no connection) and leaves the
\* counter at its value before the call.
TooManyLeavesCounter ==
  [][ (Len(fetches') = Len(fetches) + 1 /\ concurrencyCounter + 1 > MaxFetchConcurrency)
        => /\ fetches'[Len(fetches')].result = TooManyRequests
           /\ fetches'[Len(fetches')].state = "returned"
           /\ fetches'[Len(fetches')].lookup = "none"
           /\ fetches'[Len(fetches')].conn = "none"
           /\ concurrencyCounter' = concurrencyCounter ]_vars

TooManyWitness ==
  \E i \in FetchIds :
    /\ fetches[i].result = TooManyRequests
    /\ \E j \in 1..(i - 1) : fetches[j].state = "pending"

\* C17: every isolate that is created eventually reaches Disposed and stays
\* there, whatever the exit path of its evaluation.
EveryIsolateDisposed ==
  \A id \in 1..MaxRequests :
    [](id \in Ids /\ Live(id) => <>[](id \in Ids /\ isolate[id] = "Disposed"))

NoDuplicates(s) == \A i, j \in 1..Len(s) : i # j => s[i] # s[j]

\* C18: every waiter appended to the queue is eventually dequeued and settled,
\* exactly once; the consumer is never idle while the queue is non-empty, and
\* processing returns to false once the queue has drained.
EveryWaiterSettled ==
  /\ [](processing = FALSE => queue = << >>)
  /\ [](NoDuplicates(settleOrder) /\ Range(settleOrder) \cap Range(queue) = {})
  /\ \A id \in 1..MaxRequests :
       [](id \in Range(queue) =>
            <>(id \in Range(settleOrder) /\ addState[id] \in {"resolved", "rejected"}))
  /\ []<>(processing = FALSE /\ queue = << >>)

EveryWaiterWitness ==
  /\ arrived >= 2
  /\ Len(settleOrder) = arrived
  /\ processing = FALSE
  /\ \E id \in Ids : outcome[id] = "Catastrophic"
  /\ \E id \in Ids : outcome[id] = "Completed"

\* the claim's reading of the two buffers
ZeroPadded(str) == [i \in 1..BufferSize |-> IF i <= Len(str) THEN str[i] ELSE Nul]
PrefixStripped(h) ==
  IF h = NoHeader THEN << >>
  ELSE IF h # << >> /\ Head(h) = "Bearer " THEN Flatten(Tail(h)) ELSE Flatten(h)

\* what Buffer.alloc leaves in byte i for a fill string
Filled(str, i) == IF str = << >> THEN Nul ELSE str[((i - 1) % Len(str)) + 1]
FirstBearerRemoved(h) ==
  IF h = NoHeader THEN << >>
  ELSE LET t == Flatten(h)
           b == Chars("Bearer ")
       IN IF \E k \in 0..(Len(t) - Len(b)) : SubSeq(t, k + 1, k + Len(b)) = b
            THEN LET k == CHOOSE k \in 0..(Len(t) - Len(b)) :
                            /\ SubSeq(t, k + 1, k + Len(b)) = b
                            /\ \A j \in 0..(k - 1) : SubSeq(t, j + 1, j + Len(b)) # b
                 IN SubSeq(t, 1, k) \o SubSeq(t, k + Len(b) + 1, Len(t))
            ELSE t

\* an authenticate() call passed the request on / answered 418 and left the
\* queue and the runner alone
PassedOn == auth'.state = "passed" /\ arrived' = arrived + 1
Refused ==
  /\ auth'.state = "refused"
  /\ auth'.status = 418
  /\ UNCHANGED <<arrived, queue, processing, current, isolate, evalState,
                 evalOrder, responses>>

\* C11 as stated: authenticate passes a request on exactly when the token
\* ("Bearer " prefix stripped) and the secret, each zero-padded or truncated
\* to 5 bytes, are byte-equal; on mismatch it answers 418 and the request is
\* never enqueued nor evaluated.
AuthZeroPaddedEqual ==
  [][(auth.state = "arrived" /\ auth'.state # "arrived") =>
       IF ZeroPadded(secret) = ZeroPadded(PrefixStripped(auth'.header))
         THEN PassedOn ELSE Refused]_vars

\* C11 amended: authenticate passes a request on exactly when the token (the
\* header with its first "Bearer " removed, empty when absent) and the secret,
\* each repeated to fill 5 bytes or truncated to 5 bytes (all zero when
\* empty), are byte-equal; on mismatch it answers 418 and the request is
\* never enqueued nor evaluated.
AuthRepeatFilledEqual ==
  [][(auth.state = "arrived" /\ auth'.state # "arrived") =>
       IF \A i \in 1..BufferSize :
            Filled(secret, i) = Filled(FirstBearerRemoved(auth'.header), i)
         THEN PassedOn ELSE Refused]_vars

\* a request passed with a token that is not the secret
AuthWitness ==
  /\ auth.state = "passed"
  /\ arrived > 0
  /\ secret # << >>
  /\ FirstBearerRemoved(auth.header) # secret
  /\ Len(FirstBearerRemoved(auth.header)) <= BufferSize
  /\ Len(secret) <= BufferSize

\* C12: on success data[0] is never longer than 3000 characters: a result
\* longer than 3000 is cut to exactly 3000, a shorter one is unchanged.
ResultAtMost3000 ==
  probe.fn = "slice" =>
    /\ probe.out <= 3000
    /\ probe.len > 3000 => probe.out = 3000
    /\ probe.len <= 3000 => probe.out = probe.len

HasWord(code, w) ==
  \E k \in 1..Len(Flatten(code)) :
    /\ k + Len(Chars(w)) - 1 <= Len(Flatten(code))
    /\ \A j \in 1..Len(Chars(w)) : Flatten(code)[k + j - 1] = Chars(w)[j]

\* C20 as stated: the shaper takes the async-wrapper path exactly when the
\* code contains the substring return; code without it is shaped on the
\* expression (eval) path.
AsyncIffReturn ==
  probe.fn = "shape" =>
    /\ probe.path = "async" <=> HasWord(probe.code, "return")
    /\ ~HasWord(probe.code, "return") => probe.path = "eval"

\* C20 amended: the shaper takes the async-wrapper path exactly when the code
\* contains the substring return or the substring await; code with neither is
\* shaped on the expression (eval) path.
AsyncIffReturnOrAwait ==
  probe.fn = "shape" =>
    /\ probe.path = "async" <=>
         (HasWord(probe.code, "return") \/ HasWord(probe.code, "await"))
    /\ (~HasWord(probe.code, "return") /\ ~HasWord(probe.code, "await"))
         => probe.path = "eval"

\* code with await and without return was shaped
AwaitWitness ==
  /\ probe.fn = "shape"
  /\ HasWord(probe.code, "await")
  /\ ~HasWord(probe.code, "return")
  /\ probe.path = "async"

====
